---------------------------- MODULE Spec2Model ----------------------------
(***************************************************************************)
(* protoc-gen-route, package generate/template (template.go).              *)
(*                                                                         *)
(* The package holds one package-level variable, routeTemplate (the body   *)
(* of the template every rendering uses), the model types ServiceDesc,     *)
(* MethodDesc and PackageDesc, and two operations:                         *)
(*   ServiceDesc.Execute      rebuilds MethodSets from Methods, parses     *)
(*                            routeTemplate and executes it on the model;  *)
(*   ReplaceTemplateIfNeed    replaces routeTemplate by the content of a   *)
(*                            file when a path is given.                   *)
(*                                                                         *)
(* A generation pass owns one ServiceDesc, configures the template with    *)
(* ReplaceTemplateIfNeed and renders with Execute.  MethodDesc values are  *)
(* reached through pointers, so each pass has a heap of MethodDesc cells.  *)
(*                                                                         *)
(* text/template is modelled by what it does on a body made of tokens:     *)
(*   "lit"   literal text                                                  *)
(*   "key"   {{.OptionsKey}}                                               *)
(*   "names" {{range .Methods}}{{.Name}}{{.Num}}{{end}}                    *)
(*   "set"   {{range $k, $m := .MethodSets}}{{$k}}{{$m.Num}}{{end}}        *)
(*   "bad"   {{.NoSuchField}}     parses, fails when executed              *)
(*   "open"  an unclosed action   fails to parse                           *)
(***************************************************************************)
EXTENDS Integers, Sequences, FiniteSets, TLC

VARIABLES
    routeTemplate,  \* the package-level template body (template.go:11)
    sd,             \* sd[p]: the ServiceDesc of pass p
    heap,           \* heap[p][ptr]: the MethodDesc a *MethodDesc of pass p points to
    pc,             \* pc[p]: "idle", or "assign" inside ReplaceTemplateIfNeed after ReadFile
    raw,            \* raw[p]: the file content ReplaceTemplateIfNeed of pass p has read
    ret,            \* ret[p]: what the last call on pass p's model returned
    alone,          \* alone[p]: the body routeTemplate would hold had only pass p run
    counter,        \* Name Disambiguator: requests seen per candidate name
    log             \* Name Disambiguator: the requests made and the numbers handed out

vars == <<routeTemplate, sd, heap, pc, raw, ret, alone, counter, log>>

-----------------------------------------------------------------------------
(* Bounds *)

MaxMethods == 2

MaxRequests == 5

-----------------------------------------------------------------------------
(* Values *)

Passes == {1, 2}

Names == {"ProcessMenu", "UpdateCount"}

\* text/template ranges over a map in sorted key order
NameOrder == <<"ProcessMenu", "UpdateCount">>

Nums == {0, 1}

NumStr(n) == IF n = 0 THEN "0" ELSE "1"

\* MethodDesc pointers of one pass; a stale MethodSets may keep removed cells alive
Ptrs == 1 .. (2 * MaxMethods)

NoMethod == [Name |-> "", Num |-> 0]

PackageDesc ==
    [RequestType |-> "telegram.Update", ResponseType |-> "telegram.Message",
     ExtraDataType |-> "telegram.MethodExtraData",
     NewExtraDataFunc |-> "telegram.NewMethodExtraData"]

EmptyMap == [n \in {} |-> 0]

NewServiceDesc(k) ==
    [OptionsKey |-> k, ServiceType |-> "MenuService",
     ServiceName |-> "bot.v1.MenuService",
     Methods |-> <<>>, MethodSets |-> EmptyMap, Package |-> PackageDesc]

\* the embedded template.tmpl: well formed, renders the key and each method
DefaultTemplate == <<"key", "names">>

\* the files a template_file path may name; "missing.tmpl" cannot be read
Paths == {"", "custom.tmpl", "partial.tmpl", "malformed.tmpl", "missing.tmpl"}

Readable(path) == path \in {"custom.tmpl", "partial.tmpl", "malformed.tmpl"}

FileContent(path) ==
    CASE path = "custom.tmpl"    -> <<"set">>
      [] path = "partial.tmpl"   -> <<"names", "bad">>
      [] path = "malformed.tmpl" -> <<"lit", "open">>

NoRet == [op |-> "none", path |-> "", text |-> <<>>, err |-> "nil", body |-> <<>>]

-----------------------------------------------------------------------------
(* text/template *)

\* template.New("route").Parse(body): fails on a malformed action
ParseOK(body) == \A i \in DOMAIN body : body[i] # "open"

RECURSIVE EmitMethods(_, _, _)
EmitMethods(methods, h, i) ==
    IF i > Len(methods) THEN <<>>
    ELSE <<h[methods[i]].Name, NumStr(h[methods[i]].Num)>> \o EmitMethods(methods, h, i + 1)

RECURSIVE EmitSet(_, _, _)
EmitSet(set, h, i) ==
    IF i > Len(NameOrder) THEN <<>>
    ELSE (IF NameOrder[i] \in DOMAIN set
          THEN <<NameOrder[i], NumStr(h[set[NameOrder[i]]].Num)>>
          ELSE <<>>) \o EmitSet(set, h, i + 1)

Emit(tok, s, h) ==
    CASE tok = "lit"   -> <<"text">>
      [] tok = "key"   -> <<s.OptionsKey>>
      [] tok = "names" -> EmitMethods(s.Methods, h, 1)
      [] tok = "set"   -> EmitSet(s.MethodSets, h, 1)
      [] OTHER         -> <<>>

\* tmpl.Execute(&buf, s): writes to buf token by token and stops at the first
\* action that fails, leaving what was already written in buf
RECURSIVE ExecFrom(_, _, _, _, _)
ExecFrom(body, i, s, h, buf) ==
    IF i > Len(body) THEN [buf |-> buf, err |-> "nil"]
    ELSE IF body[i] = "bad" THEN [buf |-> buf, err |-> "exec"]
    ELSE ExecFrom(body, i + 1, s, h, buf \o Emit(body[i], s, h))

TemplateExecute(body, s, h) == ExecFrom(body, 1, s, h, <<>>)

-----------------------------------------------------------------------------
(* ServiceDesc.Execute *)

MethodNames(methods, h) == {h[methods[i]].Name : i \in DOMAIN methods}

\* variant: an entry already in the map is kept, so the first m with a Name wins
BuildMethodSetsFirstWins(methods, h) ==
    [n \in MethodNames(methods, h) |->
        methods[CHOOSE i \in DOMAIN methods :
                    /\ h[methods[i]].Name = n
                    /\ \A j \in DOMAIN methods : h[methods[j]].Name = n => i <= j]]

\* for _, m := range s.Methods { s.MethodSets[m.Name] = m }: a later m overwrites
BuildMethodSets(methods, h) ==
    [n \in MethodNames(methods, h) |->
        methods[CHOOSE i \in DOMAIN methods :
                    /\ h[methods[i]].Name = n
                    /\ \A j \in DOMAIN methods : h[methods[j]].Name = n => j <= i]]

\* variant: Methods is cut down to the methods that made it into the map
ExecuteModelDedup(s, h) ==
    LET set == BuildMethodSets(s.Methods, h)
        Indexed(q) == \E n \in DOMAIN set : set[n] = q
    IN  [s EXCEPT !.MethodSets = set, !.Methods = SelectSeq(@, Indexed)]

\* variant: MethodSets is left as the caller handed it in
ExecuteModelNoRebuild(s, h) == s

\* variant: MethodSets is built only when it is still empty
ExecuteModelLazy(s, h) ==
    IF DOMAIN s.MethodSets = {} THEN [s EXCEPT !.MethodSets = BuildMethodSets(s.Methods, h)]
    ELSE s

\* the ServiceDesc as Execute leaves it
ExecuteModel(s, h) == [s EXCEPT !.MethodSets = BuildMethodSets(s.Methods, h)]

\* variant: on an execution error the buffer is returned with the error
ExecuteResultPartial(body, s, h) ==
    IF ~ParseOK(body) THEN [text |-> <<>>, err |-> "parse"]
    ELSE LET r == TemplateExecute(body, s, h)
         IN  [text |-> r.buf, err |-> r.err]

\* what Execute returns, given the body it read from routeTemplate
ExecuteResult(body, s, h) ==
    IF ~ParseOK(body) THEN [text |-> <<>>, err |-> "parse"]
    ELSE LET r == TemplateExecute(body, s, h)
         IN  IF r.err # "nil" THEN [text |-> <<>>, err |-> r.err]
             ELSE [text |-> r.buf, err |-> "nil"]

\* cells no longer reachable from the ServiceDesc are garbage
Reachable(s) ==
    {s.Methods[i] : i \in DOMAIN s.Methods} \cup {s.MethodSets[n] : n \in DOMAIN s.MethodSets}

\* Addresses are not observable: cells are renumbered so that Methods[i] is cell
\* i and the cells only a stale MethodSets still holds follow in key order.
StaleKeys(s) ==
    {i \in DOMAIN NameOrder :
        /\ NameOrder[i] \in DOMAIN s.MethodSets
        /\ \A j \in DOMAIN s.Methods : s.Methods[j] # s.MethodSets[NameOrder[i]]}

NewAddr(s, q) ==
    IF \E i \in DOMAIN s.Methods : s.Methods[i] = q
    THEN CHOOSE i \in DOMAIN s.Methods : s.Methods[i] = q
    ELSE LET k == CHOOSE i \in StaleKeys(s) : s.MethodSets[NameOrder[i]] = q
         IN  Len(s.Methods) + Cardinality({i \in StaleKeys(s) : i <= k})

CollectModel(s) ==
    [s EXCEPT !.Methods = [i \in DOMAIN s.Methods |-> i],
              !.MethodSets = [n \in DOMAIN s.MethodSets |-> NewAddr(s, s.MethodSets[n])]]

CollectHeap(s, h) ==
    [a \in Ptrs |->
        IF \E q \in Reachable(s) : NewAddr(s, q) = a
        THEN h[CHOOSE q \in Reachable(s) : NewAddr(s, q) = a]
        ELSE NoMethod]

\* a string is a (data pointer, length) pair: a read that races with a write may
\* see the pointer of one body with the length of the other
Garbage(n) ==
    IF n = 0 THEN {<<>>}
    ELSE IF n = 1 THEN {<<"lit">>, <<"open">>}
    ELSE {<<"lit", "lit">>, <<"lit", "open">>, <<"open", "lit">>, <<"open", "open">>}

Torn(x, y) ==
    IF Len(y) <= Len(x) THEN {SubSeq(x, 1, Len(y))}
    ELSE {x \o g : g \in Garbage(Len(y) - Len(x))}

Racing(a, b) == {a, b} \cup Torn(a, b) \cup Torn(b, a)

\* the values the read of routeTemplate in Execute of pass p may produce
ReadRouteTemplate(p) ==
    {routeTemplate} \cup
    UNION {Racing(routeTemplate, raw[q]) : q \in {x \in Passes \ {p} : pc[x] = "assign"}}

Execute(p) ==
    /\ pc[p] = "idle"
    /\ \E body \in ReadRouteTemplate(p) :
         LET s == ExecuteModel(sd[p], heap[p])
             r == ExecuteResult(body, s, heap[p])
         IN  /\ sd' = [sd EXCEPT ![p] = CollectModel(s)]
             /\ heap' = [heap EXCEPT ![p] = CollectHeap(s, heap[p])]
             /\ ret' = [ret EXCEPT ![p] = [op |-> "Execute", path |-> "",
                                           text |-> r.text, err |-> r.err, body |-> body]]
    /\ UNCHANGED <<routeTemplate, pc, raw, alone, counter, log>>

-----------------------------------------------------------------------------
(* ReplaceTemplateIfNeed *)

\* variant: no test of path, the empty path is read like any other
ReplaceTemplateIfNeedNoGuard(p, path) ==
    /\ pc[p] = "idle"
    /\ IF ~Readable(path) THEN
          /\ ret' = [ret EXCEPT ![p] =
                        [NoRet EXCEPT !.op = "Replace", !.path = path, !.err = "read"]]
          /\ UNCHANGED <<pc, raw>>
       ELSE
          /\ pc' = [pc EXCEPT ![p] = "assign"]
          /\ raw' = [raw EXCEPT ![p] = FileContent(path)]
          /\ ret' = [ret EXCEPT ![p] = [NoRet EXCEPT !.op = "ReadFile", !.path = path]]
    /\ UNCHANGED <<routeTemplate, sd, heap, alone, counter, log>>

\* variant: routeTemplate = string(raw) before err is looked at, raw being nil
\* when the read failed
ReplaceTemplateIfNeedAssignFirst(p, path) ==
    /\ pc[p] = "idle"
    /\ IF path = "" THEN
          /\ ret' = [ret EXCEPT ![p] = [NoRet EXCEPT !.op = "Replace", !.path = path]]
          /\ UNCHANGED <<routeTemplate, alone, pc, raw>>
       ELSE IF ~Readable(path) THEN
          /\ routeTemplate' = <<>>
          /\ alone' = [alone EXCEPT ![p] = <<>>]
          /\ ret' = [ret EXCEPT ![p] =
                        [NoRet EXCEPT !.op = "Replace", !.path = path, !.err = "read"]]
          /\ UNCHANGED <<pc, raw>>
       ELSE
          /\ pc' = [pc EXCEPT ![p] = "assign"]
          /\ raw' = [raw EXCEPT ![p] = FileContent(path)]
          /\ ret' = [ret EXCEPT ![p] = [NoRet EXCEPT !.op = "ReadFile", !.path = path]]
          /\ UNCHANGED <<routeTemplate, alone>>
    /\ UNCHANGED <<sd, heap, counter, log>>

\* path == "": return nil;  os.ReadFile fails: return err;  otherwise the
\* content is read and the assignment to routeTemplate is the next step
ReplaceTemplateIfNeed(p, path) ==
    /\ pc[p] = "idle"
    /\ IF path = "" THEN
          /\ ret' = [ret EXCEPT ![p] = [NoRet EXCEPT !.op = "Replace", !.path = path]]
          /\ UNCHANGED <<pc, raw>>
       ELSE IF ~Readable(path) THEN
          /\ ret' = [ret EXCEPT ![p] =
                        [NoRet EXCEPT !.op = "Replace", !.path = path, !.err = "read"]]
          /\ UNCHANGED <<pc, raw>>
       ELSE
          /\ pc' = [pc EXCEPT ![p] = "assign"]
          /\ raw' = [raw EXCEPT ![p] = FileContent(path)]
          /\ ret' = [ret EXCEPT ![p] = [NoRet EXCEPT !.op = "ReadFile", !.path = path]]
    /\ UNCHANGED <<routeTemplate, sd, heap, alone, counter, log>>

\* routeTemplate = string(raw); return nil
AssignTemplate(p) ==
    /\ pc[p] = "assign"
    /\ \A q \in Passes \ {p} : pc[q] # "assign"
    /\ routeTemplate' = raw[p]
    /\ alone' = [alone EXCEPT ![p] = raw[p]]
    /\ pc' = [pc EXCEPT ![p] = "idle"]
    /\ raw' = [raw EXCEPT ![p] = <<>>]
    /\ ret' = [ret EXCEPT ![p] = [NoRet EXCEPT !.op = "Replace", !.path = ret[p].path]]
    /\ UNCHANGED <<sd, heap, counter, log>>

\* two passes assign at once: an unsynchronised write-write race on routeTemplate
AssignTemplateRace(p, q) ==
    /\ p # q
    /\ pc[p] = "assign" /\ pc[q] = "assign"
    /\ routeTemplate' \in Racing(raw[p], raw[q])
    /\ alone' = [alone EXCEPT ![p] = raw[p], ![q] = raw[q]]
    /\ pc' = [pc EXCEPT ![p] = "idle", ![q] = "idle"]
    /\ raw' = [raw EXCEPT ![p] = <<>>, ![q] = <<>>]
    /\ ret' = [ret EXCEPT ![p] = [NoRet EXCEPT !.op = "Replace", !.path = ret[p].path],
                          ![q] = [NoRet EXCEPT !.op = "Replace", !.path = ret[q].path]]
    /\ UNCHANGED <<sd, heap, counter, log>>

-----------------------------------------------------------------------------
(* The model builder's writes to the exported fields of ServiceDesc/MethodDesc *)

FreshPtr(s) == CHOOSE q \in Ptrs \ Reachable(s) : \A x \in Ptrs \ Reachable(s) : q <= x

RemoveAt(seq, i) == SubSeq(seq, 1, i - 1) \o SubSeq(seq, i + 1, Len(seq))

\* s.Methods = append(s.Methods, &MethodDesc{Name: n, Num: k})
AppendMethod(p, n, k) ==
    /\ pc[p] = "idle"
    /\ Len(sd[p].Methods) < MaxMethods
    /\ Ptrs \ Reachable(sd[p]) # {}
    /\ LET q == FreshPtr(sd[p])
           s == [sd[p] EXCEPT !.Methods = Append(@, q)]
           h == [heap[p] EXCEPT ![q] = [Name |-> n, Num |-> k]]
       IN  /\ sd' = [sd EXCEPT ![p] = CollectModel(s)]
           /\ heap' = [heap EXCEPT ![p] = CollectHeap(s, h)]
    /\ ret' = [ret EXCEPT ![p] = NoRet]
    /\ UNCHANGED <<routeTemplate, pc, raw, alone, counter, log>>

\* s.Methods = append(s.Methods[:i], s.Methods[i+1:]...)
RemoveMethod(p, i) ==
    /\ pc[p] = "idle"
    /\ i \in DOMAIN sd[p].Methods
    /\ LET s == [sd[p] EXCEPT !.Methods = RemoveAt(@, i)]
       IN  /\ sd' = [sd EXCEPT ![p] = CollectModel(s)]
           /\ heap' = [heap EXCEPT ![p] = CollectHeap(s, heap[p])]
    /\ ret' = [ret EXCEPT ![p] = NoRet]
    /\ UNCHANGED <<routeTemplate, pc, raw, alone, counter, log>>

\* s.Methods[i].Name = n
RenameMethod(p, i, n) ==
    /\ pc[p] = "idle"
    /\ i \in DOMAIN sd[p].Methods
    /\ heap[p][sd[p].Methods[i]].Name # n
    /\ heap' = [heap EXCEPT ![p][sd[p].Methods[i]].Name = n]
    /\ ret' = [ret EXCEPT ![p] = NoRet]
    /\ UNCHANGED <<routeTemplate, sd, pc, raw, alone, counter, log>>

-----------------------------------------------------------------------------
(* Name Disambiguator: one counter per candidate name, for one generation run *)

Candidates == {"MenuServiceUpdateCount", "MenuServiceProcessMenu", "BotServiceHandleStart"}

RECURSIVE SumOver(_, _)
SumOver(c, S) ==
    IF S = {} THEN 0 ELSE LET x == CHOOSE y \in S : TRUE IN c[x] + SumOver(c, S \ {x})

\* variant: one counter shared by all candidate names
AssignNumShared(c, name) == SumOver(c, DOMAIN c)

\* the number handed out for a request, and the counters after it
AssignNum(c, name) == c[name]

AssignCount(c, name) == [c EXCEPT ![name] = @ + 1]

Assign(name) ==
    /\ Len(log) < MaxRequests
    /\ log' = Append(log, [name |-> name, num |-> AssignNum(counter, name)])
    /\ counter' = AssignCount(counter, name)
    /\ UNCHANGED <<routeTemplate, sd, heap, pc, raw, ret, alone>>

-----------------------------------------------------------------------------
(* Specifications *)

KeyOf(p) == IF p = 1 THEN "bot" ELSE "http"

\* the README's MenuService: UpdateCount, then ProcessMenu
ExampleHeap ==
    [q \in Ptrs |-> IF q = 1 THEN [Name |-> "UpdateCount", Num |-> 0]
                    ELSE IF q = 2 THEN [Name |-> "ProcessMenu", Num |-> 0]
                    ELSE NoMethod]

BuiltServiceDesc(k, n) == [NewServiceDesc(k) EXCEPT !.Methods = [i \in 1 .. n |-> i]]

BuiltHeap(n) == [q \in Ptrs |-> IF q <= n THEN ExampleHeap[q] ELSE NoMethod]

InitPackage ==
    /\ routeTemplate = DefaultTemplate
    /\ pc = [p \in Passes |-> "idle"]
    /\ raw = [p \in Passes |-> <<>>]
    /\ ret = [p \in Passes |-> NoRet]
    /\ alone = [p \in Passes |-> DefaultTemplate]
    /\ counter = [c \in Candidates |-> 0]
    /\ log = <<>>

\* One pass: the builder fills the ServiceDesc of pass 1, which is rendered at
\* any point in between; the template is configured through ReplaceTemplateIfNeed.
Init ==
    /\ InitPackage
    /\ sd = [p \in Passes |-> NewServiceDesc(KeyOf(p))]
    /\ heap = [p \in Passes |-> [q \in Ptrs |-> NoMethod]]

Next ==
    \/ \E n \in Names, k \in Nums : AppendMethod(1, n, k)
    \/ \E i \in 1 .. MaxMethods : RemoveMethod(1, i)
    \/ \E i \in 1 .. MaxMethods, n \in Names : RenameMethod(1, i, n)
    \/ Execute(1)
    \/ \E path \in Paths : ReplaceTemplateIfNeed(1, path)
    \/ AssignTemplate(1)

Spec == Init /\ [][Next]_vars

\* Several passes in one process, each with the ServiceDesc its builder produced,
\* configuring the template and rendering in any interleaving.
InitPasses ==
    /\ InitPackage
    /\ \E n \in [Passes -> {1, 2}] :
         /\ sd = [p \in Passes |-> BuiltServiceDesc(KeyOf(p), n[p])]
         /\ heap = [p \in Passes |-> BuiltHeap(n[p])]

NextPasses ==
    \/ \E p \in Passes : Execute(p)
    \/ \E p \in Passes, path \in Paths : ReplaceTemplateIfNeed(p, path)
    \/ \E p \in Passes : AssignTemplate(p)
    \/ \E p \in Passes, q \in Passes : AssignTemplateRace(p, q)

SpecPasses == InitPasses /\ [][NextPasses]_vars

\* One generation run of the Name Disambiguator.
InitDedup ==
    /\ InitPackage
    /\ sd = [p \in Passes |-> NewServiceDesc(KeyOf(p))]
    /\ heap = [p \in Passes |-> [q \in Ptrs |-> NoMethod]]

NextDedup == \E name \in Candidates : Assign(name)

SpecDedup == InitDedup /\ [][NextDedup]_vars

-----------------------------------------------------------------------------
(* Properties *)

Executed(p) == ret[p].op = "Execute"

NameAt(p, i) == heap[p][sd[p].Methods[i]].Name

LastWith(p, n) ==
    CHOOSE i \in DOMAIN sd[p].Methods :
        /\ NameAt(p, i) = n
        /\ \A j \in DOMAIN sd[p].Methods : NameAt(p, j) = n => j <= i

DistinctNames(p) ==
    \A i, j \in DOMAIN sd[p].Methods : NameAt(p, i) = NameAt(p, j) => i = j

\* C1 as stated: after Execute, MethodSets[m.Name] is m for every m in Methods and
\* MethodSets has as many entries as Methods, also when two methods share a Name.
C1_Original ==
    \A p \in Passes : Executed(p) =>
        /\ \A i \in DOMAIN sd[p].Methods :
             /\ NameAt(p, i) \in DOMAIN sd[p].MethodSets
             /\ sd[p].MethodSets[NameAt(p, i)] = sd[p].Methods[i]
        /\ Cardinality(DOMAIN sd[p].MethodSets) = Len(sd[p].Methods)

\* C1 amended: after Execute, MethodSets has one entry per distinct Name of
\* Methods and MethodSets[m.Name] is the last element of Methods with that Name;
\* it is m for every m, with as many entries as Methods, when the Names of
\* Methods are pairwise distinct.
C1_LastWins ==
    \A p \in Passes : Executed(p) =>
        /\ \A i \in DOMAIN sd[p].Methods :
             /\ NameAt(p, i) \in DOMAIN sd[p].MethodSets
             /\ sd[p].MethodSets[NameAt(p, i)] = sd[p].Methods[LastWith(p, NameAt(p, i))]
        /\ Cardinality(DOMAIN sd[p].MethodSets)
              = Cardinality(MethodNames(sd[p].Methods, heap[p]))
        /\ DistinctNames(p) =>
             /\ \A i \in DOMAIN sd[p].Methods :
                    sd[p].MethodSets[NameAt(p, i)] = sd[p].Methods[i]
             /\ Cardinality(DOMAIN sd[p].MethodSets) = Len(sd[p].Methods)

\* Execute has run on a ServiceDesc in which two methods carry the same Name
C1_Witness ==
    \E p \in Passes :
        /\ Executed(p)
        /\ Len(sd[p].Methods) = 2
        /\ NameAt(p, 1) = NameAt(p, 2)
        /\ heap[p][1].Num # heap[p][2].Num

MethodsUnchanged(p) ==
    /\ sd'[p].Methods = sd[p].Methods
    /\ \A i \in DOMAIN sd[p].Methods :
          heap'[p][sd[p].Methods[i]] = heap[p][sd[p].Methods[i]]

OtherFieldsUnchanged(p) ==
    /\ sd'[p].OptionsKey = sd[p].OptionsKey
    /\ sd'[p].ServiceType = sd[p].ServiceType
    /\ sd'[p].ServiceName = sd[p].ServiceName
    /\ sd'[p].Package = sd[p].Package

\* C2 as stated: a call to Execute, successful or not, leaves every field of the
\* ServiceDesc, MethodSets included, and every MethodDesc as it was.
C2_Original ==
    [][\A p \in Passes : Execute(p) =>
          /\ OtherFieldsUnchanged(p)
          /\ MethodsUnchanged(p)
          /\ sd'[p].MethodSets = sd[p].MethodSets]_vars

\* C2 amended: a call to Execute, successful or not, leaves OptionsKey,
\* ServiceType, ServiceName, Methods, Package and every MethodDesc in Methods as
\* they were; the one field it writes is MethodSets, which it replaces by the
\* index of Methods by Name.
C2_WritesOnlyMethodSets ==
    [][\A p \in Passes : Execute(p) =>
          /\ OtherFieldsUnchanged(p)
          /\ MethodsUnchanged(p)
          /\ sd'[p].MethodSets = BuildMethodSets(sd[p].Methods, heap[p])]_vars

\* a failed Execute has left a rebuilt MethodSets behind
C2_Witness ==
    \E p \in Passes :
        /\ Executed(p)
        /\ ret[p].err # "nil"
        /\ Len(sd[p].Methods) = 2
        /\ DOMAIN sd[p].MethodSets # {}

IsIndex(p) ==
    /\ DOMAIN sd[p].MethodSets = MethodNames(sd[p].Methods, heap[p])
    /\ \A n \in DOMAIN sd[p].MethodSets :
          \E i \in DOMAIN sd[p].Methods :
              sd[p].Methods[i] = sd[p].MethodSets[n] /\ NameAt(p, i) = n

\* C3 as stated: in every reachable state MethodSets is the index of Methods by
\* Name: its keys are the Names of the current elements of Methods.
C3_Original == \A p \in Passes : IsIndex(p)

\* C3 amended: MethodSets is rebuilt by Execute only.  In every state reached by
\* an Execute call with no change to Methods since, MethodSets is the index of
\* Methods by Name (its keys are the Names of the current elements, each key
\* maps to a current element with that Name); between a change to Methods and
\* the next Execute it may hold other keys or lack current ones.
C3_IndexAfterExecute == \A p \in Passes : Executed(p) => IsIndex(p)

\* Execute has rebuilt the index of a ServiceDesc with two differently named methods
C3_Witness ==
    \E p \in Passes :
        /\ Executed(p)
        /\ DOMAIN sd[p].MethodSets = Names
        /\ IsIndex(p)

\* C6: what Execute returns depends on the template body and on the fields of
\* the ServiceDesc other than MethodSets: it is what Execute returns, with the
\* same body, on a ServiceDesc with the same fields that was never executed and
\* whose MethodSets is empty.
C6_Deterministic ==
    [][\A p \in Passes : Execute(p) =>
          LET fresh == [sd[p] EXCEPT !.MethodSets = EmptyMap]
              r == ExecuteResult(ret'[p].body, ExecuteModel(fresh, heap[p]), heap[p])
          IN  ret'[p].text = r.text /\ ret'[p].err = r.err]_vars

\* Execute has rendered, without error, the MethodSets it rebuilt for a
\* ServiceDesc with two methods of one Name
C6_Witness ==
    \E p \in Passes :
        /\ Executed(p)
        /\ ret[p].err = "nil"
        /\ ret[p].body = <<"set">>
        /\ Len(ret[p].text) = 2
        /\ Len(sd[p].Methods) = 2

\* C7: ReplaceTemplateIfNeed("") returns no error and leaves the template body
\* as it is, and when no custom template was installed the Execute that follows
\* renders with the built-in default template.
C7_EmptyPathKeepsDefault ==
    [][\A p \in Passes :
          /\ ReplaceTemplateIfNeed(p, "") =>
                /\ ret'[p].op = "Replace" /\ ret'[p].err = "nil"
                /\ routeTemplate' = routeTemplate
                /\ pc'[p] = "idle"
          /\ (Execute(p) /\ ret[p].op = "Replace" /\ ret[p].path = ""
                /\ ret[p].err = "nil" /\ alone[p] = DefaultTemplate) =>
                /\ ret'[p].body = DefaultTemplate
                /\ ret'[p].err = "nil"
                /\ ret'[p].text = TemplateExecute(DefaultTemplate, sd'[p], heap'[p]).buf]_vars

\* ReplaceTemplateIfNeed("") has returned nil with the default body in place
C7_Witness ==
    \E p \in Passes :
        /\ ret[p].op = "Replace" /\ ret[p].path = "" /\ ret[p].err = "nil"
        /\ routeTemplate = DefaultTemplate
        /\ Len(sd[p].Methods) > 0

\* C9: Execute is all-or-nothing: with an error it returns the empty text, also
\* when the template had already written to the buffer; without an error it
\* returns everything the template wrote.
C9_AllOrNothing ==
    \A p \in Passes : Executed(p) =>
        LET r == TemplateExecute(ret[p].body, sd[p], heap[p])
        IN  /\ ret[p].err # "nil" => ret[p].text = <<>>
            /\ ret[p].err = "nil" =>
                  /\ ParseOK(ret[p].body)
                  /\ r.err = "nil"
                  /\ ret[p].text = r.buf

\* Execute failed part-way, after the template had written text to the buffer
C9_Witness ==
    \E p \in Passes :
        /\ Executed(p)
        /\ ret[p].err = "exec"
        /\ TemplateExecute(ret[p].body, sd[p], heap[p]).buf # <<>>
        /\ ret[p].text = <<>>

\* C10: ReplaceTemplateIfNeed with a path that cannot be read returns the read
\* error and leaves the template body as it is; the body changes only when a
\* read succeeded, and then to the whole content of the file read.
C10_ReadErrorKeepsBody ==
    [][/\ \A p \in Passes, path \in Paths :
            (path # "" /\ ~Readable(path) /\ ReplaceTemplateIfNeed(p, path)) =>
                /\ ret'[p].op = "Replace" /\ ret'[p].err = "read"
                /\ routeTemplate' = routeTemplate
                /\ pc'[p] = "idle"
       /\ routeTemplate' # routeTemplate =>
            \E p \in Passes :
                /\ ret[p].op = "ReadFile" /\ Readable(ret[p].path)
                /\ routeTemplate' = FileContent(ret[p].path)
                /\ ret'[p].op = "Replace" /\ ret'[p].err = "nil"]_vars

\* a custom body is installed and a later ReplaceTemplateIfNeed failed to read
C10_Witness ==
    \E p \in Passes :
        /\ ret[p].op = "Replace" /\ ret[p].err = "read"
        /\ routeTemplate = FileContent("custom.tmpl")

\* what Execute of pass p returns when no other pass touches the template
ExpectedAlone(p) == ExecuteResult(alone[p], ExecuteModel(sd[p], heap[p]), heap[p])

FailedOnMalformed(q) ==
    /\ Executed(q) /\ ret[q].err = "parse"
    /\ ~ParseOK(alone[q])

\* C4 as stated: once a pass has installed a malformed body and its Execute has
\* failed, every Execute of another pass, which installed no body or a well
\* formed one, succeeds with the text it returns when the failing pass never ran.
C4_Original ==
    [][\A p \in Passes, q \in Passes :
          (p # q /\ FailedOnMalformed(q) /\ ExpectedAlone(p).err = "nil" /\ Execute(p)) =>
              /\ ret'[p].err = "nil"
              /\ ret'[p].text = ExpectedAlone(p).text]_vars

\* C5 as stated: whatever the interleaving of the passes, Execute returns for a
\* pass what it returns when the pass runs alone, rendered with the body the pass
\* itself configured.
C5_Original ==
    \A p \in Passes : Executed(p) =>
        /\ ret[p].err = ExpectedAlone(p).err
        /\ ret[p].text = ExpectedAlone(p).text

RequestsBefore(i) == {j \in 1 .. (i - 1) : log[j].name = log[i].name}

\* C8: in one run the k-th request for a candidate name is numbered k-1 (the
\* first 0, the second 1, the third 2), whatever other names were requested in
\* between.
C8_Numbering ==
    \A i \in DOMAIN log : log[i].num = Cardinality(RequestsBefore(i))

\* a name was requested a third time, with another name requested in between
C8_Witness ==
    \E i \in DOMAIN log :
        /\ Cardinality(RequestsBefore(i)) = 2
        /\ log[i].num = 2
        /\ \E j \in 1 .. (i - 1) : log[j].name # log[i].name

=============================================================================
